---- MODULE Spec2Model ----
(***************************************************************************)
(* A model of ama-chatbot.py: ranking the biographical entries against a   *)
(* query, packing them into a token-bounded prompt, answering, and the two *)
(* Google-sheet tables ('info' and 'Q&A') the program reads and writes.    *)
(***************************************************************************)
EXTENDS Integers, Sequences, FiniteSets, TLC

VARIABLES
    df,             \* the caller's dataframe of entries, passed to ama_chatbot
    loaded,         \* history: df as get_data() returned it, before any call
    separator_len,  \* len(tokenizer.tokenize(SEPARATOR))
    argsortStable,  \* whether the build's quicksort argsort leaves ties in place
    ret,            \* what the last ama_chatbot call returned or raised
    qa,             \* the cells of sheet 'Q&A'
    today,          \* the calendar date
    calls,          \* history: the record_question_answer calls that returned
    proc,           \* per process: its position in record_question_answer
    info,           \* the cells of sheet 'info'
    pass            \* the position of update_data / record_embeddings

vars == <<df, loaded, separator_len, argsortStable, ret, qa, today, calls,
          proc, info, pass>>

promptVars == <<df, loaded, separator_len, argsortStable, ret>>
logVars == <<qa, today, calls, proc>>
infoVars == <<info, pass>>

----------------------------------------------------------------------------
(* Bounds and input universes *)

MaxEntries == 3

\* Embedding vectors of the entries and the texts a query can be.
Embeddings == {<<1, 0>>, <<0, 1>>}
Queries == {"q10", "q01", "q11"}

\* Token counts an entry can have: two such entries fill the ceiling exactly
\* with a separator of three tokens; one that is nearly the ceiling by itself.
TokenSizes == {1020, 2044}

\* What the tokenizer can make of SEPARATOR ("\n* " is three GPT-2 tokens).
SeparatorLens == {1, 3}

\* What the completion model can answer (after the strip).
Answers == {"a1", "a2"}

\* The queries and answers handed to record_question_answer.
LoggedQueries == {"hi", "bye"}
LoggedAnswers == {"hello", ""}

\* The texts ("Title: ..; Content: ..") an entry of sheet 'info' can hold.
Combined == {"A", "B"}

----------------------------------------------------------------------------
(* Ranking and prompt construction *)

\* get_embeddings(text, method): the embedding backend, a function of the text.
get_embeddings(text) ==
    CASE text = "q10" -> <<1, 0>>
      [] text = "q01" -> <<0, 1>>
      [] text = "q11" -> <<1, 1>>
      [] text = "A" -> <<1, 0>>
      [] text = "B" -> <<0, 1>>

RECURSIVE Dot(_, _, _)
Dot(x, y, i) ==
    IF i > Len(x) THEN 0 ELSE x[i] * y[i] + Dot(x, y, i + 1)

\* np.dot(np.array(x), np.array(y))
vector_similarity(x, y) == Dot(x, y, 1)

\* df['similarity'] = df['embeddings'].apply(...): the column is added to (or
\* overwritten in) every row.
WithSimilarity(d, query_embedding) ==
    [i \in 1..Len(d) |->
        [section |-> d[i].section, content |-> d[i].content,
         num_tokens |-> d[i].num_tokens, embeddings |-> d[i].embeddings,
         similarity |-> vector_similarity(d[i].embeddings, query_embedding)]]

\* df.sort_values(by='similarity', ascending=False) with the default
\* kind='quicksort', then reset_index: the orders the sort may leave. Rows come
\* out by descending similarity; rows of equal similarity keep their order only
\* when the argsort happens to be stable (numpy's insertion-sort path), and come
\* out in any order otherwise.
sort_values(d, stable) ==
    { [i \in 1..Len(d) |-> d[p[i]]] :
        p \in { p \in Permutations(1..Len(d)) :
                  \A i, j \in 1..Len(d) :
                      i < j =>
                        /\ d[p[i]].similarity >= d[p[j]].similarity
                        /\ (stable /\ d[p[i]].similarity = d[p[j]].similarity)
                              => p[i] < p[j] } }

\* order_entries_by_similarity(query, df, method): the values df can have after
\* the call (the same object is returned).
order_entries_by_similarity(query, d, stable) ==
    sort_values(WithSimilarity(d, get_embeddings(query)), stable)

get_max_num_tokens == 2046

\* Variants of the loop with a plausible slip each: the section appended
\* before the length is checked; the loop left when the ceiling is reached, not
\* when it is passed; an entry that does not fit skipped and the loop continued.
RECURSIVE PackLoopAppendFirst(_, _, _, _, _)
PackLoopAppendFirst(d, sep, section_index, chosen_sections, chosen_sections_len) ==
    IF section_index > Len(d) THEN chosen_sections
    ELSE LET len == chosen_sections_len + d[section_index].num_tokens + sep
             appended == Append(chosen_sections, d[section_index].content)
         IN  IF len > get_max_num_tokens
             THEN appended
             ELSE PackLoopAppendFirst(d, sep, section_index + 1, appended, len)

RECURSIVE PackLoopStopAtCeiling(_, _, _, _, _)
PackLoopStopAtCeiling(d, sep, section_index, chosen_sections, chosen_sections_len) ==
    IF section_index > Len(d) THEN chosen_sections
    ELSE LET len == chosen_sections_len + d[section_index].num_tokens + sep
         IN  IF len >= get_max_num_tokens
             THEN chosen_sections
             ELSE PackLoopStopAtCeiling(d, sep, section_index + 1,
                      Append(chosen_sections, d[section_index].content), len)

RECURSIVE PackLoopSkip(_, _, _, _, _)
PackLoopSkip(d, sep, section_index, chosen_sections, chosen_sections_len) ==
    IF section_index > Len(d) THEN chosen_sections
    ELSE LET len == chosen_sections_len + d[section_index].num_tokens + sep
         IN  IF len > get_max_num_tokens
             THEN PackLoopSkip(d, sep, section_index + 1, chosen_sections,
                               chosen_sections_len)
             ELSE PackLoopSkip(d, sep, section_index + 1,
                      Append(chosen_sections, d[section_index].content), len)

\* The for loop of construct_prompt from section_index on.
RECURSIVE PackLoop(_, _, _, _, _)
PackLoop(d, sep, section_index, chosen_sections, chosen_sections_len) ==
    IF section_index > Len(d) THEN chosen_sections
    ELSE LET len == chosen_sections_len + d[section_index].num_tokens + sep
         IN  IF len > get_max_num_tokens
             THEN chosen_sections
             ELSE PackLoop(d, sep, section_index + 1,
                           Append(chosen_sections, d[section_index].content),
                           len)

\* construct_prompt after the ranking: header + chosen sections + query footer.
BuildPrompt(query, ranked, sep) ==
    [sections |-> PackLoop(ranked, sep, 1, <<>>, 0), query |-> query]

NoReturn == [status |-> "none"]
Raised(error) == [status |-> "raised", error |-> error]
Returned(query, answer, prompt) ==
    [status |-> "returned", query |-> query, answer |-> answer,
     prompt |-> prompt]

\* ama_chatbot(query, df, method)
ama_chatbot(query) ==
    \/ \* get_embeddings raises before df is touched
       /\ ret' = Raised("embedding")
       /\ UNCHANGED df
    \/ \E ranked \in order_entries_by_similarity(query, df, argsortStable) :
         /\ df' = ranked
         /\ \/ ret' = Raised("completion")
            \/ \E answer \in Answers :
                 ret' = Returned(query, answer,
                                 BuildPrompt(query, ranked, separator_len))

----------------------------------------------------------------------------
(* Sheets: gspread's get_all_values and update_cell *)

BlankRow(width) == [c \in 1..width |-> ""]
IsBlank(row) == \A c \in 1..Len(row) : row[c] = ""

\* The index of the last row holding a non-empty cell, 0 for a blank sheet.
LastUsedRow(sheet) ==
    LET used == {i \in 1..Len(sheet) : ~IsBlank(sheet[i])}
    IN  IF used = {} THEN 0 ELSE CHOOSE i \in used : \A j \in used : j <= i

\* sheet.get_all_values(): the rows of the used range.
get_all_values(sheet) == SubSeq(sheet, 1, LastUsedRow(sheet))

\* sheet.update_cell(row, col, value): one cell is written; the rows between
\* the used range and the written row stay blank.
update_cell(sheet, row, col, value) ==
    LET width == IF sheet = <<>> THEN col ELSE Len(sheet[1])
        padded == [i \in 1..(IF row > Len(sheet) THEN row ELSE Len(sheet)) |->
                      IF i <= Len(sheet) THEN sheet[i] ELSE BlankRow(width)]
        cells == IF col > Len(padded[row]) THEN col ELSE Len(padded[row])
        written == [padded EXCEPT ![row] =
                      [c \in 1..cells |->
                          IF c = col THEN value
                          ELSE IF c <= Len(padded[row]) THEN padded[row][c]
                          ELSE ""]]
    IN  get_all_values(written)

----------------------------------------------------------------------------
(* The 'Q&A' sheet and record_question_answer *)

MaxRecords == 3
MaxDays == 2
NumProcs == 2

Procs == 1..NumProcs

Header == <<"date", "query", "answer">>
EmptyLog == <<Header>>

\* datetime.strftime(datetime.today(), '%Y-%m-%d'), days counted from 2023-02-14
strftime(day) == "2023-02-" \o ToString(13 + day)

\* len(pd.DataFrame(data[1:], ...)): the rows after the header row.
NumRecords(data) == IF data = <<>> THEN 0 ELSE Len(data) - 1

\* A variant that forgets the header row and writes over the last record.
TargetRowOverLast(num_records) == num_records + 1

\* The row record_question_answer writes: num_records + 2.
TargetRow(num_records) == num_records + 2

\* A variant with the query and answer columns exchanged.
FieldColumnSwapped(field) ==
    CASE field = "date" -> 1
      [] field = "query" -> 3
      [] field = "answer" -> 2

\* The column record_question_answer writes each field to.
FieldColumn(field) ==
    CASE field = "date" -> 1
      [] field = "query" -> 2
      [] field = "answer" -> 3

\* record_question_answer(query, answer) run by a single writer: the read of the
\* row count and the three cell writes, with nothing in between.
WriteRecord(sheet, today_str, query, answer) ==
    LET num_records == NumRecords(get_all_values(sheet))
        row == TargetRow(num_records)
        s1 == update_cell(sheet, row, FieldColumn("date"), today_str)
        s2 == update_cell(s1, row, FieldColumn("query"), query)
    IN  update_cell(s2, row, FieldColumn("answer"), answer)

record_question_answer(query, answer) ==
    /\ NumRecords(get_all_values(qa)) < MaxRecords
    /\ qa' = WriteRecord(qa, strftime(today), query, answer)
    /\ calls' = Append(calls, <<strftime(today), query, answer>>)
    /\ UNCHANGED <<today, proc>>

\* The date changes between calls.
Midnight ==
    /\ today < MaxDays
    /\ today' = today + 1
    /\ UNCHANGED <<qa, calls, proc>>

(* record_question_answer run by several processes: every call of the sheet  *)
(* API is a step of its own, and nothing keeps another process out between   *)
(* two of them.                                                              *)

IdleProc == [pc |-> "idle"]
IdleProcs == [p \in Procs |-> IdleProc]

\* Lines 272-277: the sheet is read, the records counted, the date formatted.
ReadRecords(p, query, answer) ==
    /\ proc[p].pc = "idle"
    /\ NumRecords(get_all_values(qa)) < MaxRecords
    /\ proc' = [proc EXCEPT ![p] =
                  [pc |-> "date", query |-> query, answer |-> answer,
                   num_records |-> NumRecords(get_all_values(qa)),
                   today_str |-> strftime(today)]]
    /\ UNCHANGED <<qa, today, calls>>

\* Line 278
WriteDate(p) ==
    /\ proc[p].pc = "date"
    /\ qa' = update_cell(qa, TargetRow(proc[p].num_records),
                         FieldColumn("date"), proc[p].today_str)
    /\ proc' = [proc EXCEPT ![p].pc = "query"]
    /\ UNCHANGED <<today, calls>>

\* Line 279
WriteQuery(p) ==
    /\ proc[p].pc = "query"
    /\ qa' = update_cell(qa, TargetRow(proc[p].num_records),
                         FieldColumn("query"), proc[p].query)
    /\ proc' = [proc EXCEPT ![p].pc = "answer"]
    /\ UNCHANGED <<today, calls>>

\* Line 280, and the return
WriteAnswer(p) ==
    /\ proc[p].pc = "answer"
    /\ qa' = update_cell(qa, TargetRow(proc[p].num_records),
                         FieldColumn("answer"), proc[p].answer)
    /\ proc' = [proc EXCEPT ![p].pc = "returned"]
    /\ calls' = Append(calls, <<proc[p].today_str, proc[p].query,
                                proc[p].answer>>)
    /\ UNCHANGED today

----------------------------------------------------------------------------
(* The 'info' sheet and update_data *)

MaxInfoRows == 3

InfoHeader == <<"section", "content", "num_tokens", "embeddings">>

\* len(tokenizer.encode(x))
TokenCount(text) ==
    CASE text = "A" -> 6
      [] text = "B" -> 8

\* str() of a list of floats: "[1.0, 0.0]"
RECURSIVE StrFloats(_, _)
StrFloats(v, i) ==
    IF i > Len(v) THEN ""
    ELSE (IF i > 1 THEN ", " ELSE "") \o ToString(v[i]) \o ".0"
         \o StrFloats(v, i + 1)

StrList(v) == "[" \o StrFloats(v, 1) \o "]"

\* add_embeddings(get_data(), method): the fields computed for every data row,
\* row by row (python index 0 is sheet row 2).
add_embeddings(sheet) ==
    [i \in 1..(Len(sheet) - 1) |->
        [combined |-> sheet[i + 1][2],
         embeddings |-> get_embeddings(sheet[i + 1][2]),
         num_tokens |-> TokenCount(sheet[i + 1][2])]]

\* A variant that writes the embeddings cell first.
RowWritesEmbeddingsFirst == <<"embeddings", "num_tokens">>

\* The cells record_embeddings writes for one row, in the order it writes them.
RowWrites == <<"num_tokens", "embeddings">>

InfoColumn(field) ==
    CASE field = "num_tokens" -> 3
      [] field = "embeddings" -> 4

\* str(df.loc[row, field])
CellText(entry, field) ==
    IF field = "num_tokens" THEN ToString(entry.num_tokens)
    ELSE StrList(entry.embeddings)

IdlePass == [pc |-> "idle"]

\* update_data: get_data and add_embeddings, up to the first write.
update_data ==
    /\ pass.pc = "idle"
    /\ \/ \* the embedding backend raises: nothing is written
          pass' = [pc |-> "raised", written |-> {}, before |-> info]
       \/ pass' = [pc |-> "writing", df |-> add_embeddings(info), row |-> 0,
                   step |-> 1, written |-> {}, before |-> info]
    /\ UNCHANGED info

\* Where the loop of record_embeddings stands after a write.
AfterWrite(p) ==
    LET last == p.step = Len(RowWrites)
        row == IF last THEN p.row + 1 ELSE p.row
    IN  [p EXCEPT !.row = row,
                  !.step = IF last THEN 1 ELSE p.step + 1,
                  !.pc = IF row >= Len(p.df) THEN "done" ELSE "writing",
                  !.written = p.written \cup {<<p.row, RowWrites[p.step]>>}]

\* One sheet.update_cell of record_embeddings (lines 67-68).
WriteCell ==
    /\ pass.pc = "writing"
    /\ pass.row < Len(pass.df)
    /\ info' = update_cell(info, pass.row + 2, InfoColumn(RowWrites[pass.step]),
                           CellText(pass.df[pass.row + 1], RowWrites[pass.step]))
    /\ pass' = AfterWrite(pass)

\* A sheet.update_cell that raises: the pass ends there. The request may or may
\* not have reached the sheet.
WriteCellRaises ==
    /\ pass.pc = "writing"
    /\ pass.row < Len(pass.df)
    /\ \/ /\ UNCHANGED info
          /\ pass' = [pass EXCEPT !.pc = "raised"]
       \/ /\ info' = update_cell(info, pass.row + 2,
                                 InfoColumn(RowWrites[pass.step]),
                                 CellText(pass.df[pass.row + 1],
                                          RowWrites[pass.step]))
          /\ pass' = [AfterWrite(pass) EXCEPT !.pc = "raised"]

----------------------------------------------------------------------------
(* Specification of the question-answering calls *)

Entries(n) ==
    [1..n -> [num_tokens : TokenSizes, embeddings : Embeddings]]

AsLoaded(e) ==
    [i \in 1..Len(e) |->
        [section |-> i, content |-> i, num_tokens |-> e[i].num_tokens,
         embeddings |-> e[i].embeddings]]

InitPrompt ==
    /\ \E n \in 0..MaxEntries : \E e \in Entries(n) : df = AsLoaded(e)
    /\ loaded = df
    /\ separator_len \in SeparatorLens
    /\ argsortStable \in BOOLEAN
    /\ ret = NoReturn

IdlePrompt ==
    /\ df = <<>>
    /\ loaded = <<>>
    /\ separator_len = 3
    /\ argsortStable = TRUE
    /\ ret = NoReturn

IdleLog ==
    /\ qa = EmptyLog
    /\ today = 1
    /\ calls = <<>>
    /\ proc = IdleProcs

IdleInfo ==
    /\ info = <<InfoHeader>>
    /\ pass = IdlePass

Init == InitPrompt /\ IdleLog /\ IdleInfo

Next ==
    \E query \in Queries :
        /\ ama_chatbot(query)
        /\ UNCHANGED <<loaded, separator_len, argsortStable>>
        /\ UNCHANGED logVars
        /\ UNCHANGED infoVars

Spec == Init /\ [][Next]_vars

----------------------------------------------------------------------------
(* Specification of a single writer of the Q&A log *)

InitLog == IdlePrompt /\ IdleLog /\ IdleInfo

NextLog ==
    /\ \/ \E query \in LoggedQueries, answer \in LoggedAnswers :
             record_question_answer(query, answer)
       \/ Midnight
    /\ UNCHANGED promptVars
    /\ UNCHANGED infoVars

SpecLog == InitLog /\ [][NextLog]_vars

----------------------------------------------------------------------------
(* Specification of several processes writing the Q&A log *)

\* The log the processes find: empty, or holding one earlier record.
FoundLogs == {EmptyLog, <<Header, <<strftime(1), "hi", "hello">>>>}

InitRace ==
    /\ IdlePrompt
    /\ IdleInfo
    /\ qa \in FoundLogs
    /\ today = 1
    /\ calls = <<>>
    /\ proc = IdleProcs

NextRace ==
    /\ \E p \in Procs :
          \/ \E query \in LoggedQueries, answer \in LoggedAnswers :
                ReadRecords(p, query, answer)
          \/ WriteDate(p)
          \/ WriteQuery(p)
          \/ WriteAnswer(p)
    /\ UNCHANGED promptVars
    /\ UNCHANGED infoVars

SpecRace == InitRace /\ [][NextRace]_vars

----------------------------------------------------------------------------
(* Specification of a pass of update_data over the 'info' sheet *)

\* What the computed cells of a row hold before the pass: nothing, or the
\* fields computed when the row held the text `was`.
StoredCells(was) ==
    IF was = "" THEN <<"", "">>
    ELSE <<ToString(TokenCount(was)), StrList(get_embeddings(was))>>

InfoRow(text, was) == <<"s", text>> \o StoredCells(was)

InitInfo ==
    /\ IdlePrompt
    /\ IdleLog
    /\ \E n \in 1..MaxInfoRows :
          \E texts \in [1..n -> Combined], was \in [1..n -> Combined \cup {""}] :
             info = <<InfoHeader>> \o [i \in 1..n |-> InfoRow(texts[i], was[i])]
    /\ pass = IdlePass

NextInfo ==
    /\ \/ update_data
       \/ WriteCell
       \/ WriteCellRaises
    /\ UNCHANGED promptVars
    /\ UNCHANGED logVars

SpecInfo == InitInfo /\ [][NextInfo]_vars

----------------------------------------------------------------------------
(* Properties of ranking and prompt construction, checked under Spec *)

TokenCeiling == 2046

HasReturned == ret.status = "returned"

\* What one entry takes of the budget: its tokens and the separator's.
Cost(entry) == entry.num_tokens + separator_len

RECURSIVE SumCosts(_)
SumCosts(entries) ==
    IF entries = <<>> THEN 0
    ELSE Cost(Head(entries)) + SumCosts(Tail(entries))

\* The entries whose content the returned prompt holds, in the prompt's order.
PackedEntries ==
    [i \in 1..Len(ret.prompt.sections) |->
        df[CHOOSE k \in 1..Len(df) : df[k].content = ret.prompt.sections[i]]]

NumPacked == Len(ret.prompt.sections)

StoppedEarly == HasReturned /\ NumPacked >= 1 /\ NumPacked < Len(df)

\* C1: the sections of a returned prompt are entries of df whose token counts
\* plus one separator each add up to at most the ceiling of 2046 tokens; when
\* the top-ranked entry alone costs more than the ceiling the prompt holds no
\* section.
C1_PackedWithinCeiling ==
    HasReturned =>
        /\ \A i \in 1..NumPacked :
              \E k \in 1..Len(df) : df[k].content = ret.prompt.sections[i]
        /\ SumCosts(PackedEntries) <= TokenCeiling
        /\ (Len(df) > 0 /\ Cost(df[1]) > TokenCeiling) => NumPacked = 0

\* C1 witness: a prompt that uses the budget to the last token and leaves
\* entries out.
C1_Witness ==
    /\ StoppedEarly
    /\ SumCosts(PackedEntries) = TokenCeiling

\* C2 as stated: when packing stops early with an entry packed, the packed
\* total without the last packed entry plus the first excluded entry's cost
\* exceeds the ceiling.
C2_SwapLastExceeds ==
    StoppedEarly =>
        SumCosts(SubSeq(PackedEntries, 1, NumPacked - 1))
            + Cost(df[NumPacked + 1]) > TokenCeiling

\* C2 amended: when packing stops early with an entry packed, the packed total
\* (every packed entry kept) plus the first excluded entry's cost exceeds the
\* ceiling.
C2_NextDoesNotFit ==
    StoppedEarly =>
        SumCosts(PackedEntries) + Cost(df[NumPacked + 1]) > TokenCeiling

\* C2 witness: packing stopped early although the first excluded entry would
\* fit in place of the last packed one.
C2_Witness ==
    /\ StoppedEarly
    /\ SumCosts(SubSeq(PackedEntries, 1, NumPacked - 1))
           + Cost(df[NumPacked + 1]) <= TokenCeiling

RankOf(entry) ==
    vector_similarity(entry.embeddings, get_embeddings(ret.query))

\* The length of the longest prefix of df whose costs fit under the ceiling.
LongestFittingPrefix ==
    CHOOSE k \in 0..Len(df) :
        /\ SumCosts(SubSeq(df, 1, k)) <= TokenCeiling
        /\ k < Len(df) => SumCosts(SubSeq(df, 1, k + 1)) > TokenCeiling

\* C3: after a returned call df is ranked by descending similarity to the
\* query, and the prompt holds exactly the contents of the longest prefix of
\* the ranking whose cumulative cost fits under the ceiling, in rank order.
C3_LongestPrefixPacked ==
    HasReturned =>
        /\ \A i, j \in 1..Len(df) : i < j => RankOf(df[i]) >= RankOf(df[j])
        /\ ret.prompt.sections =
              [i \in 1..LongestFittingPrefix |-> df[i].content]

\* C3 witness: packing stopped at an entry that did not fit although a lower
\* ranked entry would have fitted in the budget that was left.
C3_Witness ==
    /\ HasReturned
    /\ \E j \in (NumPacked + 2)..Len(df) :
          SumCosts(PackedEntries) + Cost(df[j]) <= TokenCeiling

\* Where the entry of a section stands in a dataframe.
PositionIn(d, section) == CHOOSE k \in 1..Len(d) : d[k].section = section

\* C4 as stated: a call that ranks leaves df a permutation of its rows sorted
\* by descending dot product with the query embedding, rows of equal
\* similarity in the order they had before the call.
C4_RankingStable ==
    [][ret'.status = "returned" =>
          /\ Len(df') = Len(df)
          /\ \A k \in 1..Len(df) :
                \E i \in 1..Len(df') :
                   /\ df'[i].section = df[k].section
                   /\ df'[i].content = df[k].content
                   /\ df'[i].num_tokens = df[k].num_tokens
                   /\ df'[i].embeddings = df[k].embeddings
                   /\ df'[i].similarity =
                         vector_similarity(df[k].embeddings,
                                           get_embeddings(ret'.query))
          /\ \A i, j \in 1..Len(df') :
                i < j =>
                   /\ df'[i].similarity >= df'[j].similarity
                   /\ df'[i].similarity = df'[j].similarity =>
                         PositionIn(df, df'[i].section)
                            < PositionIn(df, df'[j].section)]_vars

\* C5 as stated: a call of ama_chatbot that returns an answer appends the row
\* (date, query, answer) to the Q&A log, and a call that raises appends none.
C5_AnswerLogged ==
    [][/\ ret'.status = "returned" =>
             Tail(qa') = Append(Tail(qa), <<strftime(today), ret'.query,
                                            ret'.answer>>)
       /\ ret'.status = "raised" => qa' = qa]_vars

\* C8 as stated: the caller's entries have the same order and the same fields
\* after a call as when they were loaded.
C8_EntriesUnchanged == df = loaded

\* The prompts a call with this query can build from a dataframe.
Prompts(query, d) ==
    { BuildPrompt(query, ranked, separator_len) :
        ranked \in order_entries_by_similarity(query, d, argsortStable) }

\* C10 as stated: whatever calls came before, a call builds for a query the
\* prompt it builds for it from the entries as loaded.
C10_PromptIgnoresHistory ==
    \A query \in Queries : Prompts(query, df) = Prompts(query, loaded)

----------------------------------------------------------------------------
(* Properties of the Q&A log *)

\* C6: with one writer the log holds, under its header, one row per call of
\* record_question_answer, (date of the call, query, answer), in call order;
\* every call adds its row after the rows that were there and changes none.
C6_OneRowPerCallInOrder ==
    /\ qa[1] = Header
    /\ Tail(qa) = calls

\* C6 witness: two calls with different arguments, hence two rows.
C6_Witness ==
    /\ Len(calls) >= 2
    /\ calls[1] # calls[2]
    /\ Len(qa) = Len(calls) + 1

Finished(p) == proc[p].pc = "returned"
Quiescent == \A p \in Procs : proc[p].pc \in {"idle", "returned"}

\* The finished calls that counted as many records as p did.
Colliders(p) ==
    {r \in Procs : Finished(r) /\ proc[r].num_records = proc[p].num_records}

\* The records the first reader found.
FoundRecords ==
    LET counts == {proc[p].num_records : p \in {r \in Procs : Finished(r)}}
    IN  CHOOSE n \in counts : \A m \in counts : n <= m

\* C7: (checked under SpecRace) calls that counted the same number of records
\* wrote the same row: once they have returned the log holds fewer new rows
\* than calls returned, and each cell of that row is the date, query or answer
\* of one of those calls, not necessarily the same call for the three cells.
C7_SameCountSameRow ==
    Quiescent =>
        \A p \in Procs :
            (Finished(p) /\ Cardinality(Colliders(p)) >= 2) =>
                LET row == qa[proc[p].num_records + 2]
                IN  /\ Len(qa) - 1 <
                          FoundRecords
                             + Cardinality({r \in Procs : Finished(r)})
                    /\ row[1] \in {proc[r].today_str : r \in Colliders(p)}
                    /\ row[2] \in {proc[r].query : r \in Colliders(p)}
                    /\ row[3] \in {proc[r].answer : r \in Colliders(p)}

\* C7 witness: two calls returned, one row was added, and it holds the query of
\* one call beside the answer of the other.
C7_Witness ==
    /\ Quiescent
    /\ \E p, r \in Procs :
          /\ Finished(p) /\ Finished(r)
          /\ proc[p].num_records = proc[r].num_records
          /\ proc[p].query # proc[r].query
          /\ proc[p].answer # proc[r].answer
          /\ Len(qa) = proc[p].num_records + 2
          /\ qa[proc[p].num_records + 2][2] = proc[p].query
          /\ qa[proc[p].num_records + 2][3] = proc[r].answer

----------------------------------------------------------------------------
(* Properties of the 'info' sheet during a pass of update_data *)

Wrote(row, field) == <<row, field>> \in pass.written

\* The python indices of the data rows.
InfoRows == 0..(Len(pass.before) - 2)

\* What the pass computes for the text of a row.
NewTokens(row) == ToString(TokenCount(pass.before[row + 2][2]))
NewEmbeddings(row) == StrList(get_embeddings(pass.before[row + 2][2]))

\* C9: (checked under SpecInfo) in every state of the sheet during a pass,
\* and after a pass that a failed write ended, a row whose embeddings cell was
\* written has its num_tokens cell written; written cells hold the new values
\* and the others the old ones; the rows before a written row are fully
\* written; at most one row has a new num_tokens beside an old embedding.
C9_TokensBeforeEmbeddings ==
    pass.pc # "idle" =>
        /\ Len(info) = Len(pass.before)
        /\ \A r \in InfoRows :
              /\ Wrote(r, "embeddings") => Wrote(r, "num_tokens")
              /\ info[r + 2][4] # "" => info[r + 2][3] # ""
              /\ info[r + 2][1] = pass.before[r + 2][1]
              /\ info[r + 2][2] = pass.before[r + 2][2]
              /\ info[r + 2][3] = IF Wrote(r, "num_tokens") THEN NewTokens(r)
                                  ELSE pass.before[r + 2][3]
              /\ info[r + 2][4] = IF Wrote(r, "embeddings")
                                  THEN NewEmbeddings(r)
                                  ELSE pass.before[r + 2][4]
        /\ \A r, s \in InfoRows :
              (r < s /\ (Wrote(s, "num_tokens") \/ Wrote(s, "embeddings")))
                 => (Wrote(r, "num_tokens") /\ Wrote(r, "embeddings"))
        /\ Cardinality({r \in InfoRows : Wrote(r, "num_tokens")
                                          /\ ~Wrote(r, "embeddings")}) <= 1

\* C9 witness: a write failed in the second of three rows: the first row is
\* new, the second has a new num_tokens beside its old embedding, the third is
\* old, and old and new values differ.
C9_Witness ==
    /\ pass.pc = "raised"
    /\ Len(info) = 4
    /\ Wrote(0, "embeddings")
    /\ Wrote(1, "num_tokens") /\ ~Wrote(1, "embeddings")
    /\ info[3][4] # "" /\ info[3][4] # NewEmbeddings(1)
    /\ info[4][3] # "" /\ info[4][3] # NewTokens(2)

====
